---- MODULE Spec2Model ----
(***************************************************************************)
(* The Trainer (src/training/train.py) and the Predictor service           *)
(* (src/serving/api.py), coupled only through the artifact file            *)
(* model/model.joblib.                                                     *)
(*                                                                         *)
(* The fitted classifier is opaque library state.  It is modelled by what  *)
(* the service can observe of it: the label it gives to each one-row       *)
(* input the service can build.  RandomForestClassifier is constructed     *)
(* without random_state, so fit() may return any such classifier.          *)
(***************************************************************************)
EXTENDS Integers, Sequences, FiniteSets, TLC

VARIABLES
    dirExists,  \* the directory model/ exists in the working directory
    artifact,   \* the file model/model.joblib
    trainer,    \* outcome of the last completed train() run
    proc,       \* the Predictor process: "stopped", "running", "failed"
    model,      \* api.py's module-level `model`: <<>> (unbound) or <<clf>>
    slot        \* per client connection: the request in flight / its answer

vars == <<dirExists, artifact, trainer, proc, model, slot>>

----------------------------------------------------------------------------
(* Bounds *)

\* finite request values are 0..MaxValue
MaxValue == 1

FiniteValues == 0..MaxValue

\* the client connections: two, so that requests overlap and any two answers
\* can be compared (no claim relates more than two requests)
Clients == {"c1", "c2"}

----------------------------------------------------------------------------
(* Floats, feature rows and classifiers *)

\* a Python float: a finite number, or a value float32 cannot hold (inf, 1e39)
Float(v) == [finite |-> TRUE, num |-> v]
PosInf == [finite |-> FALSE, num |-> 0]

\* load_iris(): 4 feature columns, targets 0, 1, 2
NFeatures == 4
Labels == {0, 1, 2}

\* mutant: the value replicated three times
FeatureVector3(value) == <<value, value, value>>

\* np.array([[value, value, value, value]]), the one row of it
FeatureVector(value) == <<value, value, value, value>>

\* the rows of NFeatures equal finite columns: the inputs the service builds
Rows == {[j \in 1..NFeatures |-> Float(v)] : v \in FiniteValues}

\* model.fit(X, y) with no random_state: any labelling of the rows by the
\* classes seen in y
FittedModels == [Rows -> Labels]

\* RandomForestClassifier.predict(X): raises ValueError when a row has not
\* the NFeatures columns the forest was fitted on, or holds a value that is
\* not finite in float32; otherwise one label per row
ModelPredict(clf, X) ==
    IF \E i \in 1..Len(X) : Len(X[i]) # NFeatures
        THEN [raised |-> TRUE, labels |-> <<>>]
    ELSE IF \E i \in 1..Len(X) : \E j \in 1..Len(X[i]) : ~X[i][j].finite
        THEN [raised |-> TRUE, labels |-> <<>>]
    ELSE [raised |-> FALSE, labels |-> [i \in 1..Len(X) |-> clf[X[i]]]]

----------------------------------------------------------------------------
(* HTTP requests and responses *)

\* the decimal text of a finite value, as it travels in a request
Digits == <<"0", "1", "2", "3", "4", "5", "6", "7", "8", "9">>
NumStr(v) == Digits[v + 1]

\* a request: the route, the query parameter `value` (<<>> when absent, else
\* <<text>>) and the JSON body field `value` (<<>> when absent)
HealthReq == [route |-> "health", query |-> <<>>, body |-> <<>>]
PredictReq(q, b) == [route |-> "predict", query |-> q, body |-> b]
NoReq == [route |-> "none", query |-> <<>>, body |-> <<>>]

QueryTexts == {NumStr(v) : v \in FiniteValues} \cup {"inf", "abc"}
Requests ==
    {HealthReq}
    \cup {PredictReq(<<s>>, <<>>) : s \in QueryTexts}
    \cup {PredictReq(<<>>, <<NumStr(v)>>) : v \in FiniteValues}
    \cup {PredictReq(<<>>, <<>>)}

\* Python's float(text), as the framework applies it to a `float` parameter
ParseFloat(s) ==
    IF \E v \in FiniteValues : NumStr(v) = s
        THEN [ok |-> TRUE, value |-> Float(CHOOSE v \in FiniteValues : NumStr(v) = s)]
    ELSE IF s = "inf"
        THEN [ok |-> TRUE, value |-> PosInf]
    ELSE [ok |-> FALSE, value |-> PosInf]

\* mutant: `value: float = 0`, also used when the text does not parse
BindValueDefault(req) ==
    IF req.query = <<>> \/ ~ParseFloat(req.query[1]).ok
        THEN [ok |-> TRUE, value |-> Float(0)]
        ELSE ParseFloat(req.query[1])

\* `def predict(value: float)`: a parameter of a scalar type that is not part
\* of the path is a required query parameter; the body is not consulted
BindValue(req) ==
    IF req.query = <<>>
        THEN [ok |-> FALSE, value |-> PosInf]
        ELSE ParseFloat(req.query[1])

HealthResponse == [status |-> 200, body |-> [status |-> "ok"]]
\* mutant: labels reported one-based
PredictResponseOneBased(prediction) ==
    [status |-> 200, body |-> [prediction |-> prediction[1] + 1]]

\* int(prediction[0]) wrapped as {"prediction": ...}
PredictResponse(prediction) == [status |-> 200, body |-> [prediction |-> prediction[1]]]
\* the framework's answer to a request whose parameters do not validate
ValidationError == [status |-> 422, body |-> [detail |-> "value: missing or not a number"]]
\* the framework's answer to a handler that raised
InternalServerError == [status |-> 500, body |-> [detail |-> "Internal Server Error"]]
\* no process listens: the connection is refused, status 0 stands for "no HTTP response"
ConnectionRefused == [status |-> 0, body |-> [detail |-> "connection refused"]]
NoResp == [status |-> 0, body |-> [detail |-> "none"]]

Idle == [pc |-> "idle", req |-> NoReq, resp |-> NoResp, calls |-> 0]
Pending(r) == [pc |-> "pending", req |-> r, resp |-> NoResp, calls |-> 0]
\* calls: how many times the handling of the request invoked model.predict
Done(r, resp, calls) == [pc |-> "done", req |-> r, resp |-> resp, calls |-> calls]

----------------------------------------------------------------------------
(* The artifact file *)

NoFile == [state |-> "missing", content |-> <<>>]
Corrupt == [state |-> "corrupt", content |-> <<>>]
File(clf) == [state |-> "valid", content |-> <<clf>>]

Init ==
    /\ dirExists \in BOOLEAN
    /\ artifact \in (IF dirExists THEN {NoFile, Corrupt} ELSE {NoFile})
    /\ trainer = [result |-> "none", fitted |-> <<>>]
    /\ proc = "stopped"
    /\ model = <<>>
    /\ slot = [c \in Clients |-> Idle]

----------------------------------------------------------------------------
(* Trainer *)

\* mutant: a completed run also swaps the model of a running service
train_hot_reload ==
    \E clf \in FittedModels :
        /\ dirExists
        /\ artifact' = File(clf)
        /\ trainer' = [result |-> "ok", fitted |-> <<clf>>]
        /\ model' = IF proc = "running" THEN <<clf>> ELSE model
        /\ UNCHANGED <<dirExists, proc, slot>>

\* train(): fit a classifier and joblib.dump it to model/model.joblib.  The
\* dump opens the path for writing: it replaces an existing file, and raises
\* FileNotFoundError when the directory model/ does not exist.
train ==
    \E clf \in FittedModels :
        /\ IF dirExists
              THEN /\ artifact' = File(clf)
                   /\ trainer' = [result |-> "ok", fitted |-> <<clf>>]
              ELSE /\ artifact' = artifact
                   /\ trainer' = [result |-> "error", fitted |-> <<clf>>]
        /\ UNCHANGED <<dirExists, proc, model, slot>>

----------------------------------------------------------------------------
(* Predictor service *)

\* mutant: a failed load is swallowed and the service starts without a model
startup_lazy ==
    /\ proc # "running"
    /\ model' = artifact.content
    /\ proc' = "running"
    /\ slot' = [c \in Clients |-> Idle]
    /\ UNCHANGED <<dirExists, artifact, trainer>>

\* process start: the module body runs, model = joblib.load(path).  A missing
\* or unreadable file raises out of the import and the process exits.
startup ==
    /\ proc # "running"
    /\ IF artifact.state = "valid"
          THEN /\ model' = artifact.content
               /\ proc' = "running"
          ELSE /\ model' = <<>>
               /\ proc' = "failed"
    /\ slot' = [c \in Clients |-> Idle]
    /\ UNCHANGED <<dirExists, artifact, trainer>>

\* process exit, once the requests in flight are answered
shutdown ==
    /\ proc = "running"
    /\ \A c \in Clients : slot[c].pc # "pending"
    /\ proc' = "stopped"
    /\ model' = <<>>
    /\ UNCHANGED <<dirExists, artifact, trainer, slot>>

\* a client sends request r on connection c
send(c, r) ==
    /\ slot[c].pc # "pending"
    /\ slot' = [slot EXCEPT ![c] =
                  IF proc = "running" THEN Pending(r)
                  ELSE Done(r, ConnectionRefused, 0)]
    /\ UNCHANGED <<dirExists, artifact, trainer, proc, model>>

\* mutant: health reports whether the loaded model is the one on disk
health_freshness(c) ==
    /\ proc = "running"
    /\ slot[c].pc = "pending"
    /\ slot[c].req.route = "health"
    /\ slot' = [slot EXCEPT ![c] =
                  Done(slot[c].req,
                       IF artifact.content = model
                           THEN [status |-> 200, body |-> [status |-> "ok"]]
                           ELSE [status |-> 200, body |-> [status |-> "stale"]],
                       0)]
    /\ UNCHANGED <<dirExists, artifact, trainer, proc, model>>

\* GET /health
health(c) ==
    /\ proc = "running"
    /\ slot[c].pc = "pending"
    /\ slot[c].req.route = "health"
    /\ slot' = [slot EXCEPT ![c] = Done(slot[c].req, HealthResponse, 0)]
    /\ UNCHANGED <<dirExists, artifact, trainer, proc, model>>

\* what POST /predict answers to req with classifier clf loaded:
\* <<response, number of model.predict calls>>
PredictOutcome(clf, req) ==
    LET bound == BindValue(req) IN
    IF ~bound.ok THEN <<ValidationError, 0>>
    ELSE LET prediction == ModelPredict(clf, <<FeatureVector(bound.value)>>) IN
         IF prediction.raised THEN <<InternalServerError, 1>>
         ELSE <<PredictResponse(prediction.labels), 1>>

\* mutant: the handler loads the artifact itself on every request
predict_reloading(c) ==
    /\ proc = "running"
    /\ slot[c].pc = "pending"
    /\ slot[c].req.route = "predict"
    /\ LET out == PredictOutcome(artifact.content[1], slot[c].req) IN
         slot' = [slot EXCEPT ![c] = Done(slot[c].req, out[1], out[2])]
    /\ UNCHANGED <<dirExists, artifact, trainer, proc, model>>

\* mutant: an exception of the inference call ends the process
predict_crashing(c) ==
    /\ proc = "running"
    /\ slot[c].pc = "pending"
    /\ slot[c].req.route = "predict"
    /\ LET out == PredictOutcome(model[1], slot[c].req) IN
         IF out[1] = InternalServerError
            THEN /\ slot' = [d \in Clients |->
                              IF slot[d].pc = "pending"
                                  THEN Done(slot[d].req, ConnectionRefused, 0)
                                  ELSE slot[d]]
                 /\ proc' = "failed"
                 /\ model' = <<>>
            ELSE /\ slot' = [slot EXCEPT ![c] = Done(slot[c].req, out[1], out[2])]
                 /\ UNCHANGED <<proc, model>>
    /\ UNCHANGED <<dirExists, artifact, trainer>>

\* POST /predict
predict(c) ==
    /\ proc = "running"
    /\ slot[c].pc = "pending"
    /\ slot[c].req.route = "predict"
    /\ LET out == PredictOutcome(model[1], slot[c].req) IN
         slot' = [slot EXCEPT ![c] = Done(slot[c].req, out[1], out[2])]
    /\ UNCHANGED <<dirExists, artifact, trainer, proc, model>>

Next ==
    \/ train
    \/ startup
    \/ shutdown
    \/ \E c \in Clients : \E r \in Requests : send(c, r)
    \/ \E c \in Clients : health(c)
    \/ \E c \in Clients : predict(c)

Spec == Init /\ [][Next]_vars

----------------------------------------------------------------------------
(* Vocabulary of the claims *)

\* request texts that are numbers
NumericTexts == {NumStr(v) : v \in FiniteValues} \cup {"inf"}

\* connection c holds an HTTP response of the service (not a refused connection)
Answered(c) == slot[c].pc = "done" /\ slot[c].resp.status # 0

\* the payload {"prediction": p} with status 200
Prediction200(p) == [status |-> 200, body |-> [prediction |-> p]]

\* the label classifier clf gives to the row [v, v, v, v]
LabelOf(clf, v) == clf[<<Float(v), Float(v), Float(v), Float(v)>>]

----------------------------------------------------------------------------
(* C1 *)

\* C1 as stated: a predict request whose body carries value = v is answered
\* 200 with the label of [v, v, v, v], the model invoked exactly once.
C1_Original ==
    \A c \in Clients : \A v \in FiniteValues :
        (proc = "running" /\ Answered(c)
            /\ slot[c].req = PredictReq(<<>>, <<NumStr(v)>>))
        => /\ slot[c].resp = Prediction200(LabelOf(model[1], v))
           /\ slot[c].calls = 1

\* C1 amended: for every finite v, a predict request whose query parameter
\* value is v is answered 200 with {"prediction": p}, p the label the loaded
\* model gives to [v, v, v, v], the model invoked exactly once; a request
\* that carries the value only in its body is answered 422, and a value that
\* is not finite in float32 is answered 500.
C1_Amended ==
    \A c \in Clients :
        (proc = "running" /\ Answered(c) /\ slot[c].req.route = "predict")
        => /\ \A v \in FiniteValues :
                slot[c].req.query = <<NumStr(v)>>
                => /\ slot[c].resp = Prediction200(LabelOf(model[1], v))
                   /\ slot[c].calls = 1
           /\ (slot[c].req.query = <<>> /\ slot[c].req.body # <<>>)
                => slot[c].resp.status = 422
           /\ slot[c].req.query = <<"inf">> => slot[c].resp.status = 500

C1_Witness ==
    \E c \in Clients : \E v \in FiniteValues :
        /\ proc = "running" /\ Answered(c)
        /\ slot[c].req = PredictReq(<<NumStr(v)>>, <<>>)
        /\ slot[c].resp.status = 200
        /\ slot[c].calls = 1

----------------------------------------------------------------------------
(* C2 *)

\* C2 as stated: when the artifact could not be loaded at startup, every
\* predict call made against the service is answered with a server error (5xx).
C2_Original ==
    \A c \in Clients :
        (proc = "failed" /\ slot[c].pc = "done" /\ slot[c].req.route = "predict")
        => slot[c].resp.status \in 500..599

\* C2 amended: when the artifact is missing or unreadable at startup, the
\* process does not start: no request is ever accepted or handled with the
\* model unbound, the model is never invoked, and every request made against
\* the service fails fast with a refused connection (no HTTP response, so no
\* 5xx status either).
C2_Amended ==
    /\ proc = "running" => model # <<>>
    /\ \A c \in Clients : slot[c].pc = "pending" => (proc = "running" /\ model # <<>>)
    /\ proc = "failed" =>
          /\ model = <<>>
          /\ \A c \in Clients :
                slot[c].pc = "done"
                => (slot[c].resp = ConnectionRefused /\ slot[c].calls = 0)

C2_Witness ==
    /\ proc = "failed"
    /\ artifact.state = "missing"
    /\ \E c \in Clients :
          /\ slot[c].pc = "done"
          /\ slot[c].req.route = "predict"
          /\ slot[c].resp = ConnectionRefused

----------------------------------------------------------------------------
(* C3 *)

\* C3: the in-memory model is bound once, at process startup, to the content
\* of the artifact read then; while the process runs no step changes it: not
\* a health request, not a predict request, and not a Trainer run that
\* overwrites the artifact file.
C3_ModelSetOnce ==
    [][ /\ (proc = "running" /\ proc' = "running") => model' = model
        /\ (proc # "running" /\ proc' = "running")
             => (artifact.state = "valid" /\ model' = artifact.content) ]_vars

\* the Trainer has overwritten the artifact under a running service, which
\* has answered a predict request since with the model it loaded at startup
C3_Witness ==
    /\ proc = "running"
    /\ trainer.result = "ok"
    /\ artifact.state = "valid"
    /\ artifact.content # model
    /\ \E c \in Clients : \E v \in FiniteValues :
          /\ Answered(c)
          /\ slot[c].req.query = <<NumStr(v)>>
          /\ slot[c].resp = Prediction200(LabelOf(model[1], v))
          /\ slot[c].resp # Prediction200(LabelOf(artifact.content[1], v))

----------------------------------------------------------------------------
(* C4 *)

\* C4 as stated: every completed Trainer run, from any starting filesystem
\* state, leaves the artifact file at model/model.joblib holding the newly
\* fitted model (the directory created when it did not exist).
C4_Original ==
    trainer.result # "none"
    => /\ dirExists
       /\ artifact.state = "valid"
       /\ artifact.content = trainer.fitted

----------------------------------------------------------------------------
(* C5 *)

\* C5 as stated: a Trainer run that replaces an artifact writes one that a
\* Predictor service answers every request with exactly as with the replaced
\* one.
C5_Original ==
    [][ (artifact.state = "valid" /\ artifact'.state = "valid")
        => \A r \in Requests :
              r.route = "predict"
              => PredictOutcome(artifact'.content[1], r)
                   = PredictOutcome(artifact.content[1], r) ]_vars

----------------------------------------------------------------------------
(* C6 *)

\* the request carries no value the service can read as a number
InvalidValue(r) ==
    /\ r.route = "predict"
    /\ (r.query = <<>> \/ r.query[1] \notin NumericTexts)

\* C6: a predict request whose value is missing or not numeric is answered
\* with a client error (4xx) without the model being invoked, and the step
\* that answers it leaves the process running with its model, so that later
\* requests are answered as before.
C6_InvalidRejected ==
    /\ [](\A c \in Clients :
            (Answered(c) /\ InvalidValue(slot[c].req))
            => (slot[c].resp.status \in 400..499 /\ slot[c].calls = 0))
    /\ [][ \A c \in Clients :
            (slot[c].pc = "pending" /\ InvalidValue(slot[c].req) /\ slot'[c].pc = "done")
            => (proc' = "running" /\ model' = model /\ model' # <<>>) ]_vars

\* one connection holds the rejection of a non-numeric value, another a
\* prediction of the same running service
C6_Witness ==
    /\ proc = "running"
    /\ \E c, d \in Clients :
          /\ Answered(c)
          /\ slot[c].req = PredictReq(<<"abc">>, <<>>)
          /\ slot[c].resp.status = 422
          /\ Answered(d)
          /\ slot[d].resp.status = 200
          /\ slot[d].req.route = "predict"

----------------------------------------------------------------------------
(* C7 *)

\* C7: for a fixed loaded artifact, any two predict requests with the same
\* value get the same response, whatever was handled before or between them.
C7_Deterministic ==
    \A c, d \in Clients :
        (Answered(c) /\ Answered(d)
            /\ slot[c].req.route = "predict"
            /\ slot[d].req = slot[c].req)
        => slot[d].resp = slot[c].resp

\* two connections hold predictions for the same value, while the artifact
\* on disk has been replaced by one that labels that value differently
C7_Witness ==
    \E c, d \in Clients : \E v \in FiniteValues :
        /\ c # d
        /\ proc = "running"
        /\ Answered(c) /\ Answered(d)
        /\ slot[c].req = PredictReq(<<NumStr(v)>>, <<>>)
        /\ slot[d].req = slot[c].req
        /\ slot[c].resp.status = 200
        /\ artifact.state = "valid"
        /\ LabelOf(artifact.content[1], v) # LabelOf(model[1], v)

----------------------------------------------------------------------------
(* C8 *)

\* C8: while the process runs, every health request is answered 200 with
\* exactly {"status": "ok"}, whatever the model, the artifact and the other
\* connections hold, and answering it changes nothing but that connection.
C8_HealthOk ==
    [][ \A c \in Clients :
          (slot[c].pc = "pending" /\ slot[c].req.route = "health" /\ slot'[c].pc = "done")
          => /\ slot'[c].resp = [status |-> 200, body |-> [status |-> "ok"]]
             /\ slot'[c].calls = 0
             /\ UNCHANGED <<dirExists, artifact, trainer, proc, model>>
             /\ \A d \in Clients \ {c} : slot'[d] = slot[d] ]_vars

\* a health answer of a running service whose artifact has been replaced
\* since startup and whose other connection holds a server error
C8_Witness ==
    \E c, d \in Clients :
        /\ proc = "running"
        /\ Answered(c)
        /\ slot[c].req.route = "health"
        /\ slot[c].resp.status = 200
        /\ artifact.content # model
        /\ Answered(d)
        /\ slot[d].resp.status = 500

----------------------------------------------------------------------------
(* C9 *)

\* the request makes the inference call raise
InferenceRaises(r) == r.route = "predict" /\ r.query = <<"inf">>

\* what the service owes a request when classifier clf is loaded
Owed(clf, r) ==
    IF r.route = "health" THEN [status |-> 200, body |-> [status |-> "ok"]]
    ELSE IF InvalidValue(r) THEN ValidationError
    ELSE IF InferenceRaises(r) THEN InternalServerError
    ELSE Prediction200(LabelOf(clf, CHOOSE v \in FiniteValues : r.query = <<NumStr(v)>>))

\* C9: a predict request whose inference call raises is answered with a
\* server error (5xx); that step leaves the process running, its model and
\* every other connection unchanged; and every answer of the running service
\* is the one its own request is owed, whether or not a request failed
\* before it or beside it.
C9_FailureConfined ==
    /\ [][ \A c \in Clients :
            (slot[c].pc = "pending" /\ InferenceRaises(slot[c].req) /\ slot'[c].pc = "done")
            => /\ slot'[c].resp.status \in 500..599
               /\ proc' = "running"
               /\ model' = model
               /\ \A d \in Clients \ {c} : slot'[d] = slot[d] ]_vars
    /\ [](\A c \in Clients :
            (proc = "running" /\ Answered(c)) => slot[c].resp = Owed(model[1], slot[c].req))

\* a failed predict request and, beside it, a request answered normally
C9_Witness ==
    \E c, d \in Clients :
        /\ proc = "running"
        /\ Answered(c)
        /\ InferenceRaises(slot[c].req)
        /\ slot[c].resp.status = 500
        /\ slot[c].calls = 1
        /\ Answered(d)
        /\ slot[d].req.route = "predict"
        /\ slot[d].resp.status = 200

----------------------------------------------------------------------------
(* C10 *)

\* C10: every successful (200) answer to a predict request carries an integer
\* prediction that is one of the labels 0, 1, 2.
C10_LabelInRange ==
    \A c \in Clients :
        (Answered(c) /\ slot[c].req.route = "predict" /\ slot[c].resp.status = 200)
        => /\ DOMAIN slot[c].resp.body = {"prediction"}
           /\ slot[c].resp.body.prediction \in {0, 1, 2}

\* both extreme labels are served
C10_Witness ==
    \E c, d \in Clients :
        /\ Answered(c) /\ slot[c].req.route = "predict"
        /\ slot[c].resp = Prediction200(0)
        /\ Answered(d) /\ slot[d].req.route = "predict"
        /\ slot[d].resp = Prediction200(2)

====
